---- MODULE Spec2Model ----
(* Model of broker.Service (src/broker/service.go): the service lifecycle    *)
(* (NewService, Listen, Close, the signal hook) and the cluster event loop.  *)
(* Every goroutine is a process with its own program counter; an unrecovered *)
(* panic in any goroutine crashes the whole process, os.Exit ends it.        *)
EXTENDS Integers, Sequences, FiniteSets, TLC

\* ---------------------------------------------------------------- bounds
MaxSignals == 1      \* signals the environment sends to the process
NumTopics == 1       \* distinct topics carried by cluster events
MaxConns == 2        \* client connections accepted on the shared port

\* ---------------------------------------------------------------- values
LocalName == "n1"                    \* cfg.Cluster.NodeName of this node
Nodes == {"n1", "n2"}                \* origins of cluster events
Topics == 1..NumTopics
Signals == {"SIGINT", "SIGTERM"}
EventNames == {"+", "-", "x"}        \* "x" stands for any other name
\* The three places Close() is called from: the defer of Listen, OnSignal, and
\* a goroutine of the embedding program that calls it explicitly.
Explicit == {"user"}
Callers == {"listen", "signal"} \cup Explicit

NoErr == "nil"
SizeLimit == "user event exceeds limit"
NoBroadcast == [msg |-> "none", err |-> "none"]
NoConn == [stage |-> "none", bytes |-> "", served |-> {}, sessions |-> 0]
UnknownEvent == "received unknown event name"

\* encoding.Encode / encoding.Decode of a SubscriptionEvent: a payload that
\* does not decode leaves the target at its zero value and returns an error.
Encode(event) == [enc |-> TRUE, topic |-> event.Topic, node |-> event.Node]
Decode(payload) ==
  IF payload.enc
    THEN [err |-> NoErr, event |-> [Topic |-> payload.topic, Node |-> payload.node]]
    ELSE [err |-> "decode", event |-> [Topic |-> 0, Node |-> ""]]

\* What a peer broadcasts (Broadcast, lines 203-210), and bytes that do not decode
Garbage == [enc |-> FALSE, topic |-> 0, node |-> ""]
Payloads == {Encode([Topic |-> t, Node |-> n]) : t \in Topics, n \in Nodes}
              \cup {Garbage}
NoEvent == [type |-> "none", name |-> "", payload |-> Garbage]
MemberEvent == [type |-> "member", name |-> "", payload |-> Garbage]
UserEvents == {[type |-> "user", name |-> nm, payload |-> p] :
                 nm \in EventNames, p \in Payloads}
Events == UserEvents \cup {MemberEvent}

VARIABLES
  svc,            \* result of NewService: "none", "configured", "failed"
  Config,         \* cfg: Cluster is `s.Config.Cluster != nil`; License and
                  \* Cipher say whether cfg.License parses and yields a cipher
  proc,           \* "running", "exited" (os.Exit), "crashed" (panic)
  exitCode,       \* -1 while running, 0 after os.Exit(0), 2 after a panic
  Closing,        \* s.Closing: "open" or "closed"
  cluster,        \* s.cluster: "nil", "alive", "left", "shutdown"
  name,           \* s.name
  subscriptions,  \* s.subscriptions as a set of <<topic, node>>
  listenPc,       \* position of Listen
  listenPanic,    \* "none" or the statement whose panic unwinds Listen
  listenErr,      \* value returned by Listen
  joinErr,        \* "none" (not called), "nil" or "error": result of Join
  route,          \* inter-node route listener started
  closePc,        \* position of each caller's Close()
  done,           \* per caller, the steps of Close() executed so far
  sawCluster,     \* per caller, the outcome of `s.cluster != nil`
  hooked,         \* signal.Notify has been called
  sigChan,        \* the buffered (1) signal channel: "none" or a signal
  sigPc,          \* position of the goroutine of hookSignals
  sig,            \* the signal that goroutine is handling
  sigListening,   \* history: Listen was blocked in l.Serve() when it got it
  evPc,           \* position of clusterEventLoop
  cur,            \* the event `e` last received by clusterEventLoop
  redelivered,    \* history: `e` is the event of the previous iteration again
  lastErr,        \* result of the last onEvent call
  errLog,         \* what the last iteration of the loop passed to LogError
  printed,        \* what the last onEvent call wrote with fmt.Printf
  repPc,          \* position of the membership reporter goroutine
  conns,          \* per accepted client connection: its bytes and who served it
  bcast,          \* the last Broadcast call: its message and its result
  sent,           \* user events handed to the gossip layer by Broadcast
  members         \* s.cluster.Members(): the names in the member list

vars == <<svc, Config, proc, exitCode, Closing, cluster, name, subscriptions,
          listenPc, listenPanic, listenErr, joinErr, route, closePc, done,
          sawCluster, hooked, sigChan, sigPc, sig, sigListening, evPc, cur,
          redelivered, lastErr, errLog,
          printed, repPc, conns, bcast, sent, members>>

lifeVars == <<svc, Config>>
serveVars == <<conns, bcast, sent, members>>
listenVars == <<listenPc, listenPanic, listenErr, joinErr, route>>
closeVars == <<closePc, done, sawCluster>>
sigVars == <<hooked, sigChan, sigPc, sig, sigListening>>
loopVars == <<evPc, cur, redelivered, lastErr, errLog, printed>>

Running == svc = "configured" /\ proc = "running"

\* ---------------------------------------------------------------- Init
Init ==
  /\ svc = "none"
  /\ Config \in [Cluster : BOOLEAN, License : BOOLEAN, Cipher : BOOLEAN]
  /\ proc = "running"
  /\ exitCode = -1
  /\ Closing = "open"
  /\ cluster = "nil"
  /\ name = ""
  /\ subscriptions = {}
  /\ listenPc = "idle"
  /\ listenPanic = "none"
  /\ listenErr = "none"
  /\ joinErr = "none"
  /\ route = FALSE
  /\ closePc = [c \in Callers |-> "idle"]
  /\ done = [c \in Callers |-> <<>>]
  /\ sawCluster = [c \in Callers |-> FALSE]
  /\ hooked = FALSE
  /\ sigChan = "none"
  /\ sigPc = "off"
  /\ sig = "none"
  /\ sigListening = FALSE
  /\ evPc = "off"
  /\ cur = NoEvent
  /\ redelivered = FALSE
  /\ lastErr = NoErr
  /\ errLog = NoErr
  /\ printed = {}
  /\ repPc = "off"
  /\ conns = [i \in 1..MaxConns |-> NoConn]
  /\ bcast = NoBroadcast
  /\ sent = {}
  /\ members = {}

\* ---------------------------------------------------------------- NewService
\* NewService: returns (nil, err) when the license or the cipher is invalid.
\* A faulty NewService: a license without a usable cipher is accepted.
NewServiceResult_IgnoreCipher(licenseOk, cipherOk) ==
  IF ~licenseOk THEN "failed" ELSE "configured"

NewServiceResult(licenseOk, cipherOk) ==
  IF ~licenseOk THEN "failed"
  ELSE IF ~cipherOk THEN "failed"
  ELSE "configured"

NewService ==
  /\ svc = "none"
  /\ proc = "running"
  /\ svc' = NewServiceResult(Config.License, Config.Cipher)
  /\ UNCHANGED <<Config, proc, exitCode, Closing, cluster, name, subscriptions,
                 repPc>>
  /\ UNCHANGED <<listenVars, closeVars, sigVars, loopVars, serveVars>>

\* ---------------------------------------------------------------- Close
\* A faulty Close: the transport is shut down before the node leaves.
CloseNext_ShutdownFirst(pc, hasCluster) ==
  CASE pc = "flush" -> IF hasCluster THEN "shutdown" ELSE "close"
    [] pc = "shutdown" -> "leave"
    [] pc = "leave" -> "close"
    [] pc = "close" -> "done"

\* Close (lines 283-294) as the successor of each of its statements:
\* logging.Flush; if s.cluster != nil { Leave; Shutdown }; close(s.Closing).
CloseNext(pc, hasCluster) ==
  CASE pc = "flush" -> IF hasCluster THEN "leave" ELSE "close"
    [] pc = "leave" -> "shutdown"
    [] pc = "shutdown" -> "close"
    [] pc = "close" -> "done"

\* serf.Leave / serf.Shutdown on the handle, whatever error they return.
LeaveState(c) == IF c = "alive" THEN "left" ELSE c
ShutdownState(c) == "shutdown"

\* close(ch): closing a closed channel panics.
CloseChanPanics(ch) == ch = "closed"

\* An explicit Close() request by some goroutine holding the service.
CloseCall(c) ==
  /\ Running
  /\ c \in Explicit
  /\ closePc[c] = "idle"
  /\ closePc' = [closePc EXCEPT ![c] = "flush"]
  /\ UNCHANGED <<done, sawCluster>>
  /\ UNCHANGED <<lifeVars, serveVars, proc, exitCode, Closing, cluster, name,
                 subscriptions, repPc>>
  /\ UNCHANGED <<listenVars, sigVars, loopVars>>

\* line 284 and the test of line 287
CloseFlush(c) ==
  /\ Running
  /\ closePc[c] = "flush"
  /\ closePc' = [closePc EXCEPT ![c] = CloseNext("flush", cluster # "nil")]
  /\ done' = [done EXCEPT ![c] = Append(@, "flush")]
  /\ sawCluster' = [sawCluster EXCEPT ![c] = (cluster # "nil")]
  /\ UNCHANGED <<lifeVars, serveVars, proc, exitCode, Closing, cluster, name,
                 subscriptions, repPc>>
  /\ UNCHANGED <<listenVars, sigVars, loopVars>>

\* line 288: the error of Leave is discarded
CloseLeave(c) ==
  /\ Running
  /\ closePc[c] = "leave"
  /\ cluster' = LeaveState(cluster)
  /\ closePc' = [closePc EXCEPT ![c] = CloseNext("leave", TRUE)]
  /\ done' = [done EXCEPT ![c] = Append(@, "leave")]
  /\ UNCHANGED sawCluster
  /\ UNCHANGED <<lifeVars, serveVars, proc, exitCode, Closing, name,
                 subscriptions, repPc>>
  /\ UNCHANGED <<listenVars, sigVars, loopVars>>

\* line 289: the error of Shutdown is discarded
CloseShutdown(c) ==
  /\ Running
  /\ closePc[c] = "shutdown"
  /\ cluster' = ShutdownState(cluster)
  /\ closePc' = [closePc EXCEPT ![c] = CloseNext("shutdown", TRUE)]
  /\ done' = [done EXCEPT ![c] = Append(@, "shutdown")]
  /\ UNCHANGED sawCluster
  /\ UNCHANGED <<lifeVars, serveVars, proc, exitCode, Closing, name,
                 subscriptions, repPc>>
  /\ UNCHANGED <<listenVars, sigVars, loopVars>>

\* line 293: close(s.Closing); a second close panics and the process dies
CloseChan(c) ==
  /\ Running
  /\ closePc[c] = "close"
  /\ IF CloseChanPanics(Closing)
       THEN /\ closePc' = [closePc EXCEPT ![c] = "panic"]
            /\ proc' = "crashed"
            /\ exitCode' = 2
            /\ UNCHANGED <<Closing, done>>
       ELSE /\ closePc' = [closePc EXCEPT ![c] = CloseNext("close", sawCluster[c])]
            /\ Closing' = "closed"
            /\ done' = [done EXCEPT ![c] = Append(@, "close")]
            /\ UNCHANGED <<proc, exitCode>>
  /\ UNCHANGED sawCluster
  /\ UNCHANGED <<lifeVars, serveVars, cluster, name, subscriptions, repPc>>
  /\ UNCHANGED <<listenVars, sigVars, loopVars>>

\* ---------------------------------------------------------------- Listen
\* lines 143-145: `defer s.Close()` is registered, then hookSignals installs
\* the handler goroutine (lines 260-268).
ListenStart ==
  /\ Running
  /\ listenPc = "idle"
  /\ listenPc' = "cluster"
  /\ hooked' = TRUE
  /\ sigPc' = "wait"
  /\ UNCHANGED <<sigChan, sig, sigListening>>
  /\ UNCHANGED <<listenPanic, listenErr, joinErr, route>>
  /\ UNCHANGED <<lifeVars, serveVars, proc, exitCode, Closing, cluster, name,
                 subscriptions, repPc>>
  /\ UNCHANGED <<closeVars, loopVars>>

\* lines 148-151: clusterConfig sets s.name, serf.Create may fail
ListenCluster ==
  /\ Running
  /\ listenPc = "cluster"
  /\ IF Config.Cluster
       THEN /\ name' = LocalName
            /\ \E created \in BOOLEAN :
                 IF created
                   THEN /\ cluster' = "alive"
                        /\ members' = {LocalName}
                        /\ listenPc' = "spawnLoop"
                        /\ UNCHANGED listenErr
                   ELSE /\ cluster' = "nil"
                        /\ listenErr' = "error"
                        /\ listenPc' = "defer"
                        /\ UNCHANGED members
       ELSE /\ listenPc' = "join"
            /\ UNCHANGED <<name, cluster, listenErr, members>>
  /\ UNCHANGED <<listenPanic, joinErr, route>>
  /\ UNCHANGED <<lifeVars, conns, bcast, sent>>
  /\ UNCHANGED <<proc, exitCode, Closing, subscriptions, repPc>>
  /\ UNCHANGED <<closeVars, sigVars, loopVars>>

\* line 154: go s.clusterEventLoop()
ListenSpawnLoop ==
  /\ Running
  /\ listenPc = "spawnLoop"
  /\ evPc' = "select"
  /\ listenPc' = "route"
  /\ UNCHANGED <<cur, redelivered, lastErr, errLog, printed>>
  /\ UNCHANGED <<listenPanic, listenErr, joinErr, route>>
  /\ UNCHANGED <<lifeVars, serveVars, proc, exitCode, Closing, cluster, name,
                 subscriptions, repPc>>
  /\ UNCHANGED <<closeVars, sigVars>>

\* lines 155-157: tcp.ServeAsync on the route port; an error panics
ListenRoute ==
  /\ Running
  /\ listenPc = "route"
  /\ \E ok \in BOOLEAN :
       IF ok
         THEN /\ route' = TRUE
              /\ listenPc' = "join"
              /\ UNCHANGED listenPanic
         ELSE /\ listenPanic' = "route"
              /\ listenPc' = "defer"
              /\ UNCHANGED route
  /\ UNCHANGED <<listenErr, joinErr>>
  /\ UNCHANGED <<lifeVars, serveVars, proc, exitCode, Closing, cluster, name,
                 subscriptions, repPc>>
  /\ UNCHANGED <<closeVars, sigVars, loopVars>>

\* A faulty Listen: `if err := s.Join(...); err != nil { return err }`
ListenAfterJoin_Abort(err) == IF err = "error" THEN "defer" ELSE "reporter"

\* line 161: the result of s.Join is discarded, whatever it is
ListenAfterJoin(err) == "reporter"

\* lines 160-161 and 194-197: s.Join(s.Config.Cluster.Seed) runs outside the
\* `if`, so with Config.Cluster == nil the argument is a nil dereference.
ListenJoin ==
  /\ Running
  /\ listenPc = "join"
  /\ IF ~Config.Cluster
       THEN /\ listenPanic' = "join"
            /\ listenPc' = "defer"
            /\ UNCHANGED joinErr
       ELSE /\ \E err \in {"nil", "error"} :
                 /\ joinErr' = err
                 /\ listenPc' = ListenAfterJoin(err)
            /\ UNCHANGED listenPanic
  /\ UNCHANGED <<listenErr, route>>
  /\ UNCHANGED <<lifeVars, serveVars, proc, exitCode, Closing, cluster, name,
                 subscriptions, repPc>>
  /\ UNCHANGED <<closeVars, sigVars, loopVars>>

\* lines 163-173: the goroutine printing the members every second
ListenReporter ==
  /\ Running
  /\ listenPc = "reporter"
  /\ repPc' = "members"
  /\ listenPc' = "listener"
  /\ UNCHANGED <<listenPanic, listenErr, joinErr, route>>
  /\ UNCHANGED <<lifeVars, serveVars, proc, exitCode, Closing, cluster, name,
                 subscriptions>>
  /\ UNCHANGED <<closeVars, sigVars, loopVars>>

\* lines 176-183: listener.New; an error panics; then the two matchers
ListenNewListener ==
  /\ Running
  /\ listenPc = "listener"
  /\ \E ok \in BOOLEAN :
       IF ok
         THEN /\ listenPc' = "serve"
              /\ UNCHANGED listenPanic
         ELSE /\ listenPanic' = "listener"
              /\ listenPc' = "defer"
  /\ UNCHANGED <<listenErr, joinErr, route>>
  /\ UNCHANGED <<lifeVars, serveVars, proc, exitCode, Closing, cluster, name,
                 subscriptions, repPc>>
  /\ UNCHANGED <<closeVars, sigVars, loopVars>>

\* What makes the blocking l.Serve() of line 186 return. The listener is built
\* from the port alone and Close() never touches it: only a failure of the
\* listener itself ends the call, whatever the state of s.Closing.
ServeReturns(closing, listenerFailed) == listenerFailed

\* lines 186-190: l.Serve() returns, `err` is nil here, Listen returns nil
ListenServeReturn ==
  /\ Running
  /\ listenPc = "serve"
  /\ \E listenerFailed \in BOOLEAN : ServeReturns(Closing, listenerFailed)
  /\ listenErr' = "nil"
  /\ listenPc' = "defer"
  /\ UNCHANGED <<listenPanic, joinErr, route>>
  /\ UNCHANGED <<lifeVars, serveVars, proc, exitCode, Closing, cluster, name,
                 subscriptions, repPc>>
  /\ UNCHANGED <<closeVars, sigVars, loopVars>>

\* A faulty Listen: no Close is deferred, the function just ends.
ListenDefer_NoClose ==
  /\ Running
  /\ listenPc = "defer"
  /\ listenPc' = "closing"
  /\ closePc' = [closePc EXCEPT !["listen"] = "done"]
  /\ UNCHANGED <<done, sawCluster>>
  /\ UNCHANGED <<listenPanic, listenErr, joinErr, route>>
  /\ UNCHANGED <<lifeVars, serveVars, proc, exitCode, Closing, cluster, name,
                 subscriptions, repPc>>
  /\ UNCHANGED <<sigVars, loopVars>>

\* line 144: the deferred s.Close() starts, on return and on panic alike
ListenDefer ==
  /\ Running
  /\ listenPc = "defer"
  /\ listenPc' = "closing"
  /\ closePc' = [closePc EXCEPT !["listen"] = "flush"]
  /\ UNCHANGED <<done, sawCluster>>
  /\ UNCHANGED <<listenPanic, listenErr, joinErr, route>>
  /\ UNCHANGED <<lifeVars, serveVars, proc, exitCode, Closing, cluster, name,
                 subscriptions, repPc>>
  /\ UNCHANGED <<sigVars, loopVars>>

\* the deferred Close has returned: Listen returns, or its panic goes on
ListenEnd ==
  /\ Running
  /\ listenPc = "closing"
  /\ closePc["listen"] = "done"
  /\ IF listenPanic # "none"
       THEN /\ proc' = "crashed"
            /\ exitCode' = 2
            /\ listenPc' = "panicked"
       ELSE /\ listenPc' = "done"
            /\ UNCHANGED <<proc, exitCode>>
  /\ UNCHANGED <<listenPanic, listenErr, joinErr, route>>
  /\ UNCHANGED <<lifeVars, serveVars, Closing, cluster, name, subscriptions,
                 repPc>>
  /\ UNCHANGED <<closeVars, sigVars, loopVars>>

\* ---------------------------------------------------------------- signals
SignalsSent == (IF sigChan = "none" THEN 0 ELSE 1) + (IF sig = "none" THEN 0 ELSE 1)

\* signal.Notify never blocks: a signal is dropped when the buffer is full
DeliverSignal(sg) ==
  /\ Running
  /\ hooked
  /\ sigChan = "none"
  /\ SignalsSent < MaxSignals
  /\ sigChan' = sg
  /\ UNCHANGED <<hooked, sigPc, sig, sigListening>>
  /\ UNCHANGED <<lifeVars, serveVars, proc, exitCode, Closing, cluster, name,
                 subscriptions, repPc>>
  /\ UNCHANGED <<listenVars, closeVars, loopVars>>

\* lines 272-275: the switch of OnSignal
OnSignalCloses(sg) == sg = "SIGTERM" \/ sg = "SIGINT"

\* lines 264-265 and 271-277: receive a signal, log it, call s.Close()
SigReceive ==
  /\ Running
  /\ sigPc = "wait"
  /\ sigChan # "none"
  /\ sig' = sigChan
  /\ sigListening' = (listenPc = "serve")
  /\ sigChan' = "none"
  /\ IF OnSignalCloses(sigChan)
       THEN /\ sigPc' = "close"
            /\ closePc' = [closePc EXCEPT !["signal"] = "flush"]
       ELSE UNCHANGED <<sigPc, closePc>>
  /\ UNCHANGED <<hooked, done, sawCluster>>
  /\ UNCHANGED <<lifeVars, serveVars, proc, exitCode, Closing, cluster, name,
                 subscriptions, repPc>>
  /\ UNCHANGED <<listenVars, loopVars>>

\* line 278: os.Exit(0) once s.Close() has returned
SigExit ==
  /\ Running
  /\ sigPc = "close"
  /\ closePc["signal"] = "done"
  /\ sigPc' = "exit"
  /\ proc' = "exited"
  /\ exitCode' = 0
  /\ UNCHANGED <<hooked, sigChan, sig, sigListening>>
  /\ UNCHANGED <<lifeVars, serveVars, Closing, cluster, name, subscriptions,
                 repPc>>
  /\ UNCHANGED <<listenVars, closeVars, loopVars>>

\* ---------------------------------------------------------------- events
\* A faulty onEvent: the event is applied without the test on its origin.
onEventSubs_ApplyAll(subs, e, local) ==
  CASE e.name = "+" ->
         subs \cup {<<Decode(e.payload).event.Topic, Decode(e.payload).event.Node>>}
    [] e.name = "-" ->
         subs \ {<<Decode(e.payload).event.Topic, Decode(e.payload).event.Node>>}
    [] OTHER -> subs

\* A faulty onEvent: a remote "+" flips the entry instead of inserting it.
onEventSubs_Toggle(subs, e, local) ==
  LET entry == <<Decode(e.payload).event.Topic, Decode(e.payload).event.Node>>
  IN  IF e.name = "+" /\ Decode(e.payload).event.Node # local
        THEN IF entry \in subs THEN subs \ {entry} ELSE subs \cup {entry}
        ELSE subs

\* onEvent, lines 232-257: its effect on s.subscriptions. Neither the "+"
\* branch nor the "-" branch nor the default touches the trie.
onEventSubs(subs, e, local) ==
  CASE e.name = "+" -> subs
    [] e.name = "-" -> subs
    [] OTHER -> subs

\* onEvent: what it writes with fmt.Printf (lines 239-241 and 248-250); the
\* error of Decode is discarded, so an undecodable payload is the zero event.
onEventPrint(e, local) ==
  IF e.name \in {"+", "-"} /\ Decode(e.payload).event.Node # local
    THEN {Decode(e.payload).event}
    ELSE {}

\* A faulty onEvent: the default branch returns nil.
onEventErr_Silent(e) == NoErr

\* onEvent: its result (lines 252-256)
onEventErr(e) ==
  IF e.name = "+" \/ e.name = "-" THEN NoErr ELSE UnknownEvent

\* clusterEventLoop, lines 134-136: an error of onEvent is logged and the
\* `for` goes round again.
LoopAfterEvent(err) == "select"
LoopLogs(err) == IF err # NoErr THEN err ELSE NoErr

\* line 129: case <-s.Closing: return
LoopClosing ==
  /\ Running
  /\ evPc = "select"
  /\ Closing = "closed"
  /\ evPc' = "returned"
  /\ UNCHANGED <<cur, redelivered, lastErr, errLog, printed>>
  /\ UNCHANGED <<lifeVars, serveVars, proc, exitCode, Closing, cluster, name,
                 subscriptions, repPc>>
  /\ UNCHANGED <<listenVars, closeVars, sigVars>>

\* A faulty loop: events are also taken while onEvent is still running, as
\* a second consumer of s.events would.
LoopCanReceive_Always(pc) == pc \in {"select", "handle"}

\* lines 127-131: the one goroutine of clusterEventLoop receives from
\* s.events only at its select, after the body of the previous case.
LoopCanReceive(pc) == pc = "select"

\* line 131: case e := <-s.events; serf delivers member and user events
LoopReceive(e) ==
  /\ Running
  /\ LoopCanReceive(evPc)
  /\ cluster # "nil"
  /\ cur' = e
  /\ redelivered' = (e = cur)
  /\ evPc' = "handle"
  /\ lastErr' = NoErr
  /\ errLog' = NoErr
  /\ printed' = {}
  /\ UNCHANGED <<lifeVars, serveVars, proc, exitCode, Closing, cluster, name,
                 subscriptions, repPc>>
  /\ UNCHANGED <<listenVars, closeVars, sigVars>>

\* lines 132-137: the body of the case, onEvent included
LoopHandle ==
  /\ Running
  /\ evPc = "handle"
  /\ IF cur.type = "user"
       THEN /\ subscriptions' = onEventSubs(subscriptions, cur, name)
            /\ printed' = onEventPrint(cur, name)
            /\ lastErr' = onEventErr(cur)
            /\ errLog' = LoopLogs(onEventErr(cur))
            /\ evPc' = LoopAfterEvent(onEventErr(cur))
       ELSE /\ evPc' = "select"
            /\ printed' = {}
            /\ lastErr' = NoErr
            /\ errLog' = NoErr
            /\ UNCHANGED subscriptions
  /\ UNCHANGED <<cur, redelivered>>
  /\ UNCHANGED <<lifeVars, serveVars, proc, exitCode, Closing, cluster, name, repPc>>
  /\ UNCHANGED <<listenVars, closeVars, sigVars>>

\* ---------------------------------------------------------------- reporter
\* lines 164-172: for { s.cluster.Members() ...; println; time.Sleep }
ReporterMembers ==
  /\ Running
  /\ repPc = "members"
  /\ IF cluster = "nil"
       THEN /\ proc' = "crashed"
            /\ exitCode' = 2
            /\ UNCHANGED repPc
       ELSE /\ repPc' = "sleep"
            /\ UNCHANGED <<proc, exitCode>>
  /\ UNCHANGED <<lifeVars, serveVars, Closing, cluster, name, subscriptions>>
  /\ UNCHANGED <<listenVars, closeVars, sigVars, loopVars>>

ReporterSleep ==
  /\ Running
  /\ repPc = "sleep"
  /\ repPc' = "members"
  /\ UNCHANGED <<lifeVars, serveVars, proc, exitCode, Closing, cluster, name,
                 subscriptions>>
  /\ UNCHANGED <<listenVars, closeVars, sigVars, loopVars>>

\* ---------------------------------------------------------------- serving
\* A faulty Listen: the catch-all matcher is registered before the HTTP one.
Matchers_AnyFirst ==
  <<[match |-> "any", server |-> "tcp"], [match |-> "http", server |-> "http"]>>

\* lines 182-183: the matchers of the shared listener, in registration order:
\* listener.MatchHTTP() to s.http.Serve, listener.MatchAny() to s.tcp.Serve.
Matchers ==
  <<[match |-> "http", server |-> "http"], [match |-> "any", server |-> "tcp"]>>

\* The leading bytes of a client connection: an HTTP request line, one that
\* also carries the web-socket upgrade headers, or anything else.
LeadingBytes == {"http", "ws", "raw"}

\* listener.MatchHTTP / listener.MatchAny on the peeked bytes
Matches(m, bytes) == m = "any" \/ (m = "http" /\ bytes \in {"http", "ws"})

\* The listener hands a connection to the server of the first matcher, in
\* registration order, that accepts its leading bytes.
Dispatch(ms, bytes) ==
  LET hits == {i \in 1..Len(ms) : Matches(ms[i].match, bytes)}
  IN  IF hits = {} THEN {}
      ELSE {ms[CHOOSE i \in hits : \A j \in hits : i <= j].server}

\* onRequest, lines 224-229: the connection goes to onAcceptConn only when
\* websocket.TryUpgrade succeeds; onAcceptConn (lines 213-216) starts one
\* conn.Process goroutine.
onRequestSessions(upgraded) == IF upgraded THEN 1 ELSE 0

\* the listener of line 177 accepts a client connection while l.Serve() runs
ConnAccept(i, b) ==
  /\ Running
  /\ listenPc = "serve"
  /\ conns[i].stage = "none"
  /\ conns' = [conns EXCEPT ![i] = [NoConn EXCEPT !.stage = "accepted",
                                                  !.bytes = b]]
  /\ UNCHANGED <<bcast, sent, members>>
  /\ UNCHANGED <<lifeVars, proc, exitCode, Closing, cluster, name,
                 subscriptions, repPc>>
  /\ UNCHANGED <<listenVars, closeVars, sigVars, loopVars>>

\* lines 182-183: the connection is given to s.http.Serve or to s.tcp.Serve
ConnDispatch(i) ==
  /\ Running
  /\ conns[i].stage = "accepted"
  /\ conns' = [conns EXCEPT ![i].stage = "served",
                            ![i].served = @ \cup Dispatch(Matchers, conns[i].bytes)]
  /\ UNCHANGED <<bcast, sent, members>>
  /\ UNCHANGED <<lifeVars, proc, exitCode, Closing, cluster, name,
                 subscriptions, repPc>>
  /\ UNCHANGED <<listenVars, closeVars, sigVars, loopVars>>

\* s.tcp.Serve calls s.tcp.Handler = onAcceptConn (lines 72, 213-216);
\* s.http.Serve calls onRequest (lines 73, 224-229)
ConnHandle(i) ==
  /\ Running
  /\ conns[i].stage = "served"
  /\ \E upgraded \in BOOLEAN :
       /\ upgraded => conns[i].bytes = "ws"
       /\ conns' = [conns EXCEPT
            ![i].stage = "handled",
            ![i].sessions = (IF "tcp" \in conns[i].served THEN 1 ELSE 0)
                            + (IF "http" \in conns[i].served
                                 THEN onRequestSessions(upgraded) ELSE 0)]
  /\ UNCHANGED <<bcast, sent, members>>
  /\ UNCHANGED <<lifeVars, proc, exitCode, Closing, cluster, name,
                 subscriptions, repPc>>
  /\ UNCHANGED <<listenVars, closeVars, sigVars, loopVars>>

\* ---------------------------------------------------------------- Broadcast
\* The messages given to Broadcast: one that does not encode, one within the
\* size limit of a user event, one over it.
Messages == {"bad", "small", "big"}

\* encoding.Encode (line 204)
EncodeErr(msg) == IF msg = "bad" THEN "encode" ELSE NoErr

\* s.cluster.UserEvent (line 209), as lines 199-202 document it: "if the size
\* limit is exceeded and error will be returned".
UserEventErr(msg) == IF msg = "big" THEN SizeLimit ELSE NoErr

\* A faulty Broadcast: the result of UserEvent is dropped, `return nil`.
BroadcastErr_Swallow(encErr, evErr) == IF encErr # NoErr THEN encErr ELSE NoErr

\* Broadcast, lines 204-209: the error of Encode, else the error of UserEvent
BroadcastErr(encErr, evErr) == IF encErr # NoErr THEN encErr ELSE evErr

\* Broadcast, lines 203-210, on behalf of a client handler; s.cluster is
\* dereferenced without a test, the member list is never touched.
Broadcast(nm, msg) ==
  /\ Running
  /\ IF EncodeErr(msg) = NoErr /\ cluster = "nil"
       THEN /\ proc' = "crashed"
            /\ exitCode' = 2
            /\ UNCHANGED <<bcast, sent>>
       ELSE /\ bcast' = [msg |-> msg,
                         err |-> BroadcastErr(EncodeErr(msg), UserEventErr(msg))]
            /\ sent' = IF EncodeErr(msg) = NoErr /\ UserEventErr(msg) = NoErr
                         THEN sent \cup {<<nm, msg>>}
                         ELSE sent
            /\ UNCHANGED <<proc, exitCode>>
  /\ UNCHANGED <<conns, members>>
  /\ UNCHANGED <<lifeVars, Closing, cluster, name, subscriptions, repPc>>
  /\ UNCHANGED <<listenVars, closeVars, sigVars, loopVars>>

\* The gossip layer adds a peer to the member list or removes it.
MemberChange(n) ==
  /\ Running
  /\ cluster = "alive"
  /\ n # name
  /\ members' = IF n \in members THEN members \ {n} ELSE members \cup {n}
  /\ UNCHANGED <<conns, bcast, sent>>
  /\ UNCHANGED <<lifeVars, proc, exitCode, Closing, cluster, name,
                 subscriptions, repPc>>
  /\ UNCHANGED <<listenVars, closeVars, sigVars, loopVars>>

\* ---------------------------------------------------------------- spec
CloseStep ==
  \E c \in Callers :
     CloseFlush(c) \/ CloseLeave(c) \/ CloseShutdown(c) \/ CloseChan(c)

ListenStep ==
  \/ ListenStart \/ ListenCluster \/ ListenSpawnLoop \/ ListenRoute
  \/ ListenJoin \/ ListenReporter \/ ListenNewListener
  \/ ListenDefer \/ ListenEnd

SignalStep == SigReceive \/ SigExit

LoopStep == LoopClosing \/ LoopHandle

ReporterStep == ReporterMembers \/ ReporterSleep

Next ==
  \/ NewService
  \/ \E c \in Explicit : CloseCall(c)
  \/ \E c \in Callers : CloseFlush(c)
  \/ \E c \in Callers : CloseLeave(c)
  \/ \E c \in Callers : CloseShutdown(c)
  \/ \E c \in Callers : CloseChan(c)
  \/ ListenStart
  \/ ListenCluster
  \/ ListenSpawnLoop
  \/ ListenRoute
  \/ ListenJoin
  \/ ListenReporter
  \/ ListenNewListener
  \/ ListenServeReturn
  \/ ListenDefer
  \/ ListenEnd
  \/ \E sg \in Signals : DeliverSignal(sg)
  \/ SigReceive
  \/ SigExit
  \/ LoopClosing
  \/ \E e \in Events : LoopReceive(e)
  \/ LoopHandle
  \/ ReporterMembers
  \/ ReporterSleep

Spec == Init /\ [][Next]_vars

\* The Go scheduler runs every runnable goroutine: each step of the program is
\* weakly fair. What the environment does (a signal, a Close request, a cluster
\* event, a failure of the listener) is not.
FairSpec ==
  /\ Spec
  /\ WF_vars(CloseStep)
  /\ WF_vars(ListenStep)
  /\ WF_vars(SignalStep)
  /\ WF_vars(LoopStep)
  /\ WF_vars(ReporterStep)

\* The service while Listen is blocked in l.Serve() (a state Spec reaches): the
\* client connections, the broadcasts of their handlers and the gossip of the
\* member list run from there; none of them writes what Listen, Close, the
\* signal hook or the event loop read.
ServeInit ==
  /\ svc = "configured"
  /\ Config = [Cluster |-> TRUE, License |-> TRUE, Cipher |-> TRUE]
  /\ proc = "running"
  /\ exitCode = -1
  /\ Closing = "open"
  /\ cluster = "alive"
  /\ name = LocalName
  /\ subscriptions = {}
  /\ listenPc = "serve"
  /\ listenPanic = "none"
  /\ listenErr = "none"
  /\ joinErr \in {"nil", "error"}
  /\ route = TRUE
  /\ closePc = [c \in Callers |-> "idle"]
  /\ done = [c \in Callers |-> <<>>]
  /\ sawCluster = [c \in Callers |-> FALSE]
  /\ hooked = TRUE
  /\ sigChan = "none"
  /\ sigPc = "wait"
  /\ sig = "none"
  /\ sigListening = FALSE
  /\ evPc = "select"
  /\ cur = NoEvent
  /\ redelivered = FALSE
  /\ lastErr = NoErr
  /\ errLog = NoErr
  /\ printed = {}
  /\ repPc = "members"
  /\ conns = [i \in 1..MaxConns |-> NoConn]
  /\ bcast = NoBroadcast
  /\ sent = {}
  /\ members = {LocalName}

ServeNext ==
  \/ \E i \in 1..MaxConns, b \in LeadingBytes : ConnAccept(i, b)
  \/ \E i \in 1..MaxConns : ConnDispatch(i)
  \/ \E i \in 1..MaxConns : ConnHandle(i)
  \/ \E nm \in {"+", "-"}, msg \in Messages : Broadcast(nm, msg)
  \/ \E n \in Nodes : MemberChange(n)

ServeSpec == ServeInit /\ [][ServeNext]_vars

\* ---------------------------------------------------------------- claims
IsPrefix(a, b) == Len(a) <= Len(b) /\ \A i \in 1..Len(a) : a[i] = b[i]
FullClose == <<"flush", "leave", "shutdown", "close">>
HandleReturns == evPc = "handle" /\ evPc' # "handle" /\ cur.type = "user"
Origin(e) == Decode(e.payload).event.Node
Topic(e) == Decode(e.payload).event.Topic

\* C1: Close() may be invoked more than once: whatever the interleaving of the
\* explicit Close, the Close deferred by Listen and the Close of OnSignal, no
\* invocation panics (the Closing channel is closed once, never twice).
C1_CloseNeverPanics == \A c \in Callers : closePc[c] # "panic"

\* C2: every execution of Close() that finds the membership transport runs
\* log flush, Leave, Shutdown, close(Closing) in that order: Shutdown never
\* comes before Leave, the close of Closing never before Shutdown.
C2_CloseOrder == \A c \in Callers : sawCluster[c] => IsPrefix(done[c], FullClose)

C2_Witness ==
  \E c \in Callers : sawCluster[c] /\ done[c] = FullClose /\ closePc[c] = "done"

\* C3: a SIGTERM or SIGINT received while Listen is serving leads to Leave,
\* Shutdown, close(Closing) and then os.Exit(0): the process never dies any
\* other way once the handler has taken the signal.
C3_SignalExitsCleanly ==
  sigListening =>
    /\ proc # "crashed"
    /\ (proc = "exited" => exitCode = 0 /\ done["signal"] = FullClose)

\* C4: an event whose origin is the local node name never changes the
\* subscriptions, whatever its name and topic.
C4_SelfEventsIgnored ==
  [][(HandleReturns /\ Origin(cur) = name) => subscriptions' = subscriptions]_vars

C4_Witness ==
  /\ evPc = "select"
  /\ cur.type = "user"
  /\ cur.name \in {"+", "-"}
  /\ cur.payload.enc
  /\ Origin(cur) = name
  /\ name = LocalName

\* C5: once onEvent has returned for a "+" event of topic T emitted by another
\* node A, the subscriptions hold the entry (T, A).
C5_SubscribeApplied ==
  [][(HandleReturns /\ cur.name = "+" /\ cur.payload.enc /\ Origin(cur) # name)
       => <<Topic(cur), Origin(cur)>> \in subscriptions']_vars

\* C6: handling the same event a second time in a row (a gossip redelivery)
\* leaves the subscriptions as the first handling left them.
C6_Idempotent ==
  [][(HandleReturns /\ redelivered) => subscriptions' = subscriptions]_vars

C6_Witness ==
  /\ evPc = "select"
  /\ redelivered
  /\ cur.type = "user"
  /\ cur.name = "+"
  /\ cur.payload.enc
  /\ Origin(cur) # name

\* C7: for a user event whose name is neither "+" nor "-", onEvent returns the
\* unknown-event error, the subscriptions are unchanged, and the loop logs the
\* error and waits for the next event.
C7_UnknownEvent ==
  [][(HandleReturns /\ cur.name \notin {"+", "-"})
       => /\ lastErr' = UnknownEvent
          /\ errLog' = UnknownEvent
          /\ subscriptions' = subscriptions
          /\ evPc' = "select"]_vars

C7_Witness ==
  /\ evPc = "select"
  /\ cur.type = "user"
  /\ cur.name = "x"
  /\ lastErr = UnknownEvent
  /\ errLog = UnknownEvent

\* C8: when Join returns an error, Listen neither returns nor panics because
\* of it: it goes on to start the reporter and open the client listener.
C8_JoinFailureNotFatal ==
  [][(listenPc = "join" /\ listenPc' # "join" /\ joinErr' = "error")
       => /\ listenPc' = "reporter"
          /\ listenPanic' = "none"
          /\ listenErr' = "none"]_vars

C8_Witness == joinErr = "error" /\ listenPc = "serve" /\ proc = "running"

\* C9: without cluster configuration Listen creates no transport, starts no
\* event loop, attempts no join and does not fail.
C9_NoClusterNoFailure ==
  ~Config.Cluster =>
    /\ cluster = "nil"
    /\ evPc = "off"
    /\ ~route
    /\ joinErr = "none"
    /\ listenPanic = "none"

\* C10: once an explicit Close has closed Closing while Listen is blocked in
\* l.Serve(), the call returns and Listen terminates.
C10_ServeEndsOnClose ==
  (listenPc = "serve" /\ closePc["user"] = "done" /\ Closing = "closed")
    ~> (listenPc # "serve" \/ proc # "running")

\* C11: every connection accepted on the shared client port is given to
\* exactly one of the two servers, never both: to s.http.Serve when its
\* leading bytes are an HTTP request, to s.tcp.Serve otherwise.
C11_OneHandler ==
  \A i \in 1..MaxConns :
     conns[i].stage \in {"served", "handled"} =>
       /\ Cardinality(conns[i].served) = 1
       /\ (conns[i].served = {"http"} <=> conns[i].bytes \in {"http", "ws"})
       /\ (conns[i].served = {"tcp"} <=> conns[i].bytes = "raw")

C11_Witness ==
  \E i, j \in 1..MaxConns :
     /\ conns[i].stage = "handled" /\ conns[i].served = {"http"}
     /\ conns[j].stage = "handled" /\ conns[j].served = {"tcp"}

\* C13: a Broadcast whose payload is over the size limit of the transport
\* returns the size-limit error, hands nothing to the gossip layer and leaves
\* the member list as it was.
C13_OversizeRejected ==
  [][(bcast' # bcast /\ bcast'.msg = "big")
       => /\ bcast'.err = SizeLimit
          /\ sent' = sent
          /\ members' = members]_vars

C13_Witness ==
  /\ bcast.msg = "big"
  /\ bcast.err = SizeLimit
  /\ "n2" \in members
  /\ sent # {}

\* C12: when the license does not parse or yields no cipher, NewService
\* returns no service: Listen, Join, Broadcast and Close never start, the
\* Closing channel is never closed and no transport is ever created.
C12_NoServiceOnBadLicense ==
  (~Config.License \/ ~Config.Cipher) =>
     /\ svc \in {"none", "failed"}
     /\ listenPc = "idle"
     /\ joinErr = "none"
     /\ bcast = NoBroadcast
     /\ \A c \in Callers : closePc[c] = "idle"
     /\ Closing = "open"
     /\ cluster = "nil"

C12_Witness ==
  /\ svc = "failed"
  /\ Config.License
  /\ ~Config.Cipher

\* C14: whatever Leave and Shutdown return, Close goes on: Leave is followed
\* by Shutdown, Shutdown by the close of Closing, and the invocation then
\* closes Closing and returns.
C14_CloseProceeds ==
  [][\A c \in Callers :
       /\ (closePc[c] = "leave" /\ closePc'[c] # "leave")
             => closePc'[c] = "shutdown"
       /\ (closePc[c] = "shutdown" /\ closePc'[c] # "shutdown")
             => closePc'[c] = "close"
       /\ (closePc[c] = "close" /\ closePc'[c] # "close")
             => (Closing' = "closed" /\ closePc'[c] = "done")]_vars

\* C15: once Closing is closed the event loop takes no further event: at the
\* select it returns, even when an event is ready, so onEvent is not invoked
\* after the close.
C15_ClosingWins ==
  [][(Closing = "closed" /\ evPc = "select") => evPc' # "handle"]_vars

\* C16: after Closing is closed every goroutine started by Listen comes to
\* an end: the event loop has returned and the membership reporter no
\* longer runs (or the whole process has ended).
C16_LoopsExit ==
  (Closing = "closed")
    ~> (proc # "running" \/ (evPc \in {"off", "returned"} /\ repPc = "off"))

\* C17: when the payload of a "+" or "-" event does not decode, onEvent
\* handles nothing of it (nothing is printed or applied), returns an error
\* that the loop logs, and the loop waits for the next event.
C17_DecodeFailureDropped ==
  [][(HandleReturns /\ cur.name \in {"+", "-"} /\ ~cur.payload.enc)
       => /\ printed' = {}
          /\ subscriptions' = subscriptions
          /\ lastErr' # NoErr
          /\ errLog' # NoErr
          /\ evPc' = "select"]_vars

\* C18: when the client listener cannot be created Listen aborts with
\* nothing started: no transport, no join, no event loop, no route listener
\* and no reporter exist at the panic.
C18_NoPartialService ==
  listenPanic = "listener" =>
    /\ cluster = "nil"
    /\ joinErr = "none"
    /\ evPc = "off"
    /\ ~route
    /\ repPc = "off"

\* C19: the event loop takes one event at a time, in the order of arrival
\* on s.events: an event is received only at the select, after onEvent has
\* returned for the previous one, and while onEvent runs the event it
\* handles is not replaced, so no two invocations overlap.
C19_OneAtATime ==
  [][/\ (evPc = "handle" /\ evPc' = "handle")
          => (cur' = cur /\ redelivered' = redelivered)
     /\ (cur' # cur \/ redelivered' # redelivered)
          => (evPc = "select" /\ evPc' = "handle")]_vars

C19_Witness ==
  /\ evPc = "handle"
  /\ redelivered
  /\ cur.type = "user"
  /\ cur.payload.enc
  /\ lastErr = NoErr
  /\ printed = {}

\* C20: in every state where Listen has terminated, by return or by panic
\* (a panic of the deferred Close itself included), its deferred Close has
\* been run up to close(s.Closing) and the Closing channel is closed.
C20_ListenExitCloses ==
  (listenPc \in {"done", "panicked"} \/ closePc["listen"] = "panic") =>
    /\ Closing = "closed"
    /\ closePc["listen"] \in {"done", "panic"}
    /\ Len(done["listen"]) > 0
    /\ done["listen"][1] = "flush"

C20_Witness ==
  /\ listenPc = "panicked"
  /\ listenPanic = "listener"
  /\ done["listen"] = FullClose
  /\ Closing = "closed"

====
